---- MODULE Spec2Model ----
(***************************************************************************)
(* Record store declared by app/models.py: the seven tables, the column    *)
(* constraints they declare (unique, foreign_key, ge/le, defaults) and the *)
(* Create/Update schemas through which rows are written.                    *)
(*                                                                         *)
(* Decimal columns with decimal_places=2 are held in hundredths            *)
(* (speed 0.1 is 10, progress 100.00 is 10000); position_x/position_y,     *)
(* decimal_places=3, in thousandths.  A row id is its index in the table   *)
(* (autoincrement primary key, no schema deletes a row).  An Optional      *)
(* field of an Update schema left unset is None.                           *)
(***************************************************************************)
EXTENDS Integers, Sequences, FiniteSets

VARIABLES users, reddit_posts, background_videos, tts_configurations,
          subtitle_styles, video_generation_jobs, job_progress_updates, result

vars == <<users, reddit_posts, background_videos, tts_configurations,
          subtitle_styles, video_generation_jobs, job_progress_updates, result>>

tables == <<users, reddit_posts, background_videos, tts_configurations,
            subtitle_styles, video_generation_jobs, job_progress_updates>>

\* Optional[T]: None, or Some(v) holding the value.
None == <<>>

Some(v) == <<v>>

Optional(S) == {None} \cup {Some(v) : v \in S}

\* ---------------------------------------------------------------- bounds
MaxUsers == 2
MaxPosts == 2
MaxVideos == 1
MaxPresets == 1
MaxJobs == 1
MaxLog == 2

\* ------------------------------------------------------------ JobStatus
PENDING == "pending"
PROCESSING == "processing"
COMPLETED == "completed"
FAILED == "failed"
CANCELLED == "cancelled"

JobStatus == {PENDING, PROCESSING, COMPLETED, FAILED, CANCELLED}

\* ------------------------------------------------- declared field bounds
\* TTSConfiguration, TTSConfigurationCreate, TTSConfigurationUpdate
SpeedGe == 10
SpeedLe == 300
PitchGe == 10
PitchLe == 200
VolumeGe == 10
VolumeLe == 200
\* SubtitleStyle, SubtitleStyleCreate, SubtitleStyleUpdate
FontSizeGe == 10
FontSizeLe == 72
OpacityGe == 0
OpacityLe == 100
PositionGe == 0
PositionLe == 1000
\* VideoGenerationJob, VideoGenerationJobUpdate, JobProgressUpdate(Create)
ProgressGe == 0
ProgressLe == 10000
\* VideoGenerationJob column defaults
DefaultProgress == 0
DefaultRetryCount == 0
DefaultMaxRetries == 3
RetryCountGe == 0

\* ------------------------------------------------------------ outcomes
\* What the caller is told: the row was written, or the kind of failure.
OK == "ok"
ValidationError == "ValidationError"
ConflictError == "ConflictError"
NotFoundError == "NotFoundError"

Ids(table) == DOMAIN table

\* A set field of an Update schema overwrites the stored value.
Patch(old, new) == IF new = None THEN old ELSE new[1]

Reject(e) == result' = e /\ UNCHANGED tables

\* ------------------------------------------------------------------ User
\* unique=True on username and on email: no other row holds the value.
UsernameTaken(name, except) ==
    \E i \in Ids(users) : i # except /\ users[i].username = name

\* The email column without unique=True.
EmailTakenNoCheck(mail, except) == FALSE

EmailTaken(mail, except) ==
    \E i \in Ids(users) : i # except /\ users[i].email = mail

CreateUser(dto) ==
    /\ Len(users) < MaxUsers
    /\ IF UsernameTaken(dto.username, 0) \/ EmailTaken(dto.email, 0)
       THEN Reject(ConflictError)
       ELSE /\ users' = Append(users, [username |-> dto.username, email |-> dto.email])
            /\ result' = OK
            /\ UNCHANGED <<reddit_posts, background_videos, tts_configurations,
                           subtitle_styles, video_generation_jobs, job_progress_updates>>

\* UserUpdate: a field left None keeps the stored value.
UpdateUser(id, dto) ==
    /\ id \in Ids(users)
    /\ LET name == Patch(users[id].username, dto.username)
           mail == Patch(users[id].email, dto.email)
       IN IF UsernameTaken(name, id) \/ EmailTaken(mail, id)
          THEN Reject(ConflictError)
          ELSE /\ users' = [users EXCEPT ![id] = [username |-> name, email |-> mail]]
               /\ result' = OK
               /\ UNCHANGED <<reddit_posts, background_videos, tts_configurations,
                              subtitle_styles, video_generation_jobs, job_progress_updates>>

\* ------------------------------------------------------------ RedditPost
RedditIdTaken(rid) == \E i \in Ids(reddit_posts) : reddit_posts[i].reddit_id = rid

\* RedditPostCreate declares no bound on word_count or estimated_duration.
RedditPostCreateValid(dto) == dto.word_count \in Int /\ dto.estimated_duration \in Int

\* The insert fails on the unique index or on the foreign key; when both are
\* broken the database reports either.
RedditPostErrors(dto) ==
    (IF RedditIdTaken(dto.reddit_id) THEN {ConflictError} ELSE {})
    \cup (IF dto.user_id \notin Ids(users) THEN {NotFoundError} ELSE {})

CreateRedditPost(dto) ==
    /\ Len(reddit_posts) < MaxPosts
    /\ IF ~RedditPostCreateValid(dto) THEN Reject(ValidationError)
       ELSE IF RedditPostErrors(dto) # {}
       THEN \E e \in RedditPostErrors(dto) : Reject(e)
       ELSE /\ reddit_posts' = Append(reddit_posts,
                   [reddit_id |-> dto.reddit_id, word_count |-> dto.word_count,
                    estimated_duration |-> dto.estimated_duration,
                    user_id |-> dto.user_id])
            /\ result' = OK
            /\ UNCHANGED <<users, background_videos, tts_configurations,
                           subtitle_styles, video_generation_jobs, job_progress_updates>>

\* ------------------------------------------------------- BackgroundVideo
\* BackgroundVideoCreate declares no bound on duration, width, height, fps.
BackgroundVideoCreateValid(dto) ==
    /\ dto.duration \in Int /\ dto.fps \in Int
    /\ dto.width \in Int /\ dto.height \in Int

CreateBackgroundVideo(dto) ==
    /\ Len(background_videos) < MaxVideos
    /\ IF ~BackgroundVideoCreateValid(dto) THEN Reject(ValidationError)
       ELSE IF dto.user_id \notin Ids(users) THEN Reject(NotFoundError)
       ELSE /\ background_videos' = Append(background_videos,
                   [duration |-> dto.duration, width |-> dto.width,
                    height |-> dto.height, fps |-> dto.fps, user_id |-> dto.user_id])
            /\ result' = OK
            /\ UNCHANGED <<users, reddit_posts, tts_configurations,
                           subtitle_styles, video_generation_jobs, job_progress_updates>>

\* ------------------------------------------------------ TTSConfiguration
InRange(v, lo, hi) == lo <= v /\ v <= hi

OptInRange(v, lo, hi) == v = None \/ InRange(v[1], lo, hi)

\* The table model's ge/le on speed, pitch, volume.
TTSConfigurationValid(row) ==
    /\ InRange(row.speed, SpeedGe, SpeedLe)
    /\ InRange(row.pitch, PitchGe, PitchLe)
    /\ InRange(row.volume, VolumeGe, VolumeLe)

TTSConfigurationCreateValid(dto) ==
    /\ InRange(dto.speed, SpeedGe, SpeedLe)
    /\ InRange(dto.pitch, PitchGe, PitchLe)
    /\ InRange(dto.volume, VolumeGe, VolumeLe)

\* The Update schema with le=3.0 missing on speed.
TTSConfigurationUpdateNoUpper(dto) ==
    /\ dto.speed = None \/ dto.speed[1] >= SpeedGe
    /\ OptInRange(dto.pitch, PitchGe, PitchLe)
    /\ OptInRange(dto.volume, VolumeGe, VolumeLe)

TTSConfigurationUpdateValid(dto) ==
    /\ OptInRange(dto.speed, SpeedGe, SpeedLe)
    /\ OptInRange(dto.pitch, PitchGe, PitchLe)
    /\ OptInRange(dto.volume, VolumeGe, VolumeLe)

\* The Create schema is validated, then the table row is built from it.
CreateTTSConfiguration(dto) ==
    /\ Len(tts_configurations) < MaxPresets
    /\ LET row == [speed |-> dto.speed, pitch |-> dto.pitch,
                   volume |-> dto.volume, user_id |-> dto.user_id]
       IN IF ~TTSConfigurationCreateValid(dto) \/ ~TTSConfigurationValid(row)
          THEN Reject(ValidationError)
          ELSE IF dto.user_id \notin Ids(users) THEN Reject(NotFoundError)
          ELSE /\ tts_configurations' = Append(tts_configurations, row)
               /\ result' = OK
               /\ UNCHANGED <<users, reddit_posts, background_videos,
                              subtitle_styles, video_generation_jobs, job_progress_updates>>

\* The Update schema is validated, then its set fields overwrite the row's.
UpdateTTSConfiguration(id, dto) ==
    /\ id \in Ids(tts_configurations)
    /\ IF ~TTSConfigurationUpdateValid(dto) THEN Reject(ValidationError)
       ELSE /\ tts_configurations' = [tts_configurations EXCEPT ![id] =
                   [speed |-> Patch(@.speed, dto.speed),
                    pitch |-> Patch(@.pitch, dto.pitch),
                    volume |-> Patch(@.volume, dto.volume),
                    user_id |-> @.user_id]]
            /\ result' = OK
            /\ UNCHANGED <<users, reddit_posts, background_videos,
                           subtitle_styles, video_generation_jobs, job_progress_updates>>

\* --------------------------------------------------------- SubtitleStyle
SubtitleStyleValid(row) ==
    /\ InRange(row.font_size, FontSizeGe, FontSizeLe)
    /\ InRange(row.background_opacity, OpacityGe, OpacityLe)
    /\ InRange(row.position_x, PositionGe, PositionLe)
    /\ InRange(row.position_y, PositionGe, PositionLe)

SubtitleStyleCreateValid(dto) ==
    /\ InRange(dto.font_size, FontSizeGe, FontSizeLe)
    /\ InRange(dto.background_opacity, OpacityGe, OpacityLe)
    /\ InRange(dto.position_x, PositionGe, PositionLe)
    /\ InRange(dto.position_y, PositionGe, PositionLe)

SubtitleStyleUpdateValid(dto) ==
    /\ OptInRange(dto.font_size, FontSizeGe, FontSizeLe)
    /\ OptInRange(dto.background_opacity, OpacityGe, OpacityLe)
    /\ OptInRange(dto.position_x, PositionGe, PositionLe)
    /\ OptInRange(dto.position_y, PositionGe, PositionLe)

CreateSubtitleStyle(dto) ==
    /\ Len(subtitle_styles) < MaxPresets
    /\ LET row == [font_size |-> dto.font_size,
                   background_opacity |-> dto.background_opacity,
                   position_x |-> dto.position_x, position_y |-> dto.position_y,
                   user_id |-> dto.user_id]
       IN IF ~SubtitleStyleCreateValid(dto) \/ ~SubtitleStyleValid(row)
          THEN Reject(ValidationError)
          ELSE IF dto.user_id \notin Ids(users) THEN Reject(NotFoundError)
          ELSE /\ subtitle_styles' = Append(subtitle_styles, row)
               /\ result' = OK
               /\ UNCHANGED <<users, reddit_posts, background_videos,
                              tts_configurations, video_generation_jobs, job_progress_updates>>

UpdateSubtitleStyle(id, dto) ==
    /\ id \in Ids(subtitle_styles)
    /\ IF ~SubtitleStyleUpdateValid(dto) THEN Reject(ValidationError)
       ELSE /\ subtitle_styles' = [subtitle_styles EXCEPT ![id] =
                   [font_size |-> Patch(@.font_size, dto.font_size),
                    background_opacity |-> Patch(@.background_opacity, dto.background_opacity),
                    position_x |-> Patch(@.position_x, dto.position_x),
                    position_y |-> Patch(@.position_y, dto.position_y),
                    user_id |-> @.user_id]]
            /\ result' = OK
            /\ UNCHANGED <<users, reddit_posts, background_videos,
                           tts_configurations, video_generation_jobs, job_progress_updates>>

\* ---------------------------------------------------- VideoGenerationJob
\* The five foreign keys of the job row: each must name a row of its table.
JobForeignKeysExist(dto) ==
    /\ dto.user_id \in Ids(users)
    /\ dto.reddit_post_id \in Ids(reddit_posts)
    /\ dto.background_video_id \in Ids(background_videos)
    /\ dto.tts_config_id \in Ids(tts_configurations)
    /\ dto.subtitle_style_id \in Ids(subtitle_styles)

\* VideoGenerationJobCreate carries no status, progress, retry or timestamp
\* field: the row takes the table model's defaults.
VideoGenerationJobRow(dto) ==
    [status |-> PENDING,
     progress_percentage |-> DefaultProgress,
     retry_count |-> DefaultRetryCount,
     max_retries |-> DefaultMaxRetries,
     started_at |-> None,
     completed_at |-> None,
     user_id |-> dto.user_id,
     reddit_post_id |-> dto.reddit_post_id,
     background_video_id |-> dto.background_video_id,
     tts_config_id |-> dto.tts_config_id,
     subtitle_style_id |-> dto.subtitle_style_id]

VideoGenerationJobValid(row) ==
    /\ row.status \in JobStatus
    /\ InRange(row.progress_percentage, ProgressGe, ProgressLe)
    /\ row.retry_count >= RetryCountGe
    /\ row.max_retries >= RetryCountGe

CreateVideoGenerationJob(dto) ==
    /\ Len(video_generation_jobs) < MaxJobs
    /\ IF ~VideoGenerationJobValid(VideoGenerationJobRow(dto))
       THEN Reject(ValidationError)
       ELSE IF ~JobForeignKeysExist(dto) THEN Reject(NotFoundError)
       ELSE /\ video_generation_jobs' =
                   Append(video_generation_jobs, VideoGenerationJobRow(dto))
            /\ result' = OK
            /\ UNCHANGED <<users, reddit_posts, background_videos, tts_configurations,
                           subtitle_styles, job_progress_updates>>

\* status: any JobStatus; progress_percentage: ge=0.0, le=100.0.
VideoGenerationJobUpdateValid(dto) ==
    /\ dto.status \in Optional(JobStatus)
    /\ OptInRange(dto.progress_percentage, ProgressGe, ProgressLe)

\* The Update schema has no retry_count, max_retries, started_at or
\* completed_at field, and declares no rule relating the requested status or
\* progress to the stored one.
UpdateVideoGenerationJob(id, dto) ==
    /\ id \in Ids(video_generation_jobs)
    /\ IF ~VideoGenerationJobUpdateValid(dto) THEN Reject(ValidationError)
       ELSE /\ video_generation_jobs' = [video_generation_jobs EXCEPT ![id] =
                   [@ EXCEPT !.status = Patch(@, dto.status),
                             !.progress_percentage = Patch(@, dto.progress_percentage)]]
            /\ result' = OK
            /\ UNCHANGED <<users, reddit_posts, background_videos, tts_configurations,
                           subtitle_styles, job_progress_updates>>

\* ----------------------------------------------------- JobProgressUpdate
JobProgressUpdateValid(row) ==
    InRange(row.progress_percentage, ProgressGe, ProgressLe)

JobProgressUpdateCreateValid(dto) ==
    InRange(dto.progress_percentage, ProgressGe, ProgressLe)

\* Rows are only ever appended: no Update schema exists for this table.
CreateJobProgressUpdate(dto) ==
    /\ Len(job_progress_updates) < MaxLog
    /\ LET row == [progress_percentage |-> dto.progress_percentage,
                   video_job_id |-> dto.video_job_id]
       IN IF ~JobProgressUpdateCreateValid(dto) \/ ~JobProgressUpdateValid(row)
          THEN Reject(ValidationError)
          ELSE IF dto.video_job_id \notin Ids(video_generation_jobs)
          THEN Reject(NotFoundError)
          ELSE /\ job_progress_updates' = Append(job_progress_updates, row)
               /\ result' = OK
               /\ UNCHANGED <<users, reddit_posts, background_videos, tts_configurations,
                              subtitle_styles, video_generation_jobs>>

Init ==
    /\ users = <<>>
    /\ reddit_posts = <<>>
    /\ background_videos = <<>>
    /\ tts_configurations = <<>>
    /\ subtitle_styles = <<>>
    /\ video_generation_jobs = <<>>
    /\ job_progress_updates = <<>>
    /\ result = OK

\* ---------------------------------------------- accounts and content
Usernames == {"alice", "bob"}
Emails == {"a@x.io", "b@x.io"}
UserIdInputs == 1..(MaxUsers + 1)

UserCreateInputs == [username : Usernames, email : Emails]
UserUpdateInputs == [username : Optional(Usernames), email : Optional(Emails)]
RedditPostCreateInputs ==
    [reddit_id : {"t3_a", "t3_b"}, word_count : {-1, 7},
     estimated_duration : {-150, 0}, user_id : UserIdInputs]
BackgroundVideoCreateInputs ==
    [duration : {0, 1500}, width : {-1, 1080}, height : {0, 1920},
     fps : {0, 3000}, user_id : UserIdInputs]

NextAccounts ==
    \/ \E dto \in UserCreateInputs : CreateUser(dto)
    \/ \E id \in UserIdInputs, dto \in UserUpdateInputs : UpdateUser(id, dto)
    \/ \E dto \in RedditPostCreateInputs : CreateRedditPost(dto)

SpecAccounts == Init /\ [][NextAccounts]_vars

NextContent ==
    \/ \E dto \in UserCreateInputs : CreateUser(dto)
    \/ \E dto \in RedditPostCreateInputs : CreateRedditPost(dto)
    \/ \E dto \in BackgroundVideoCreateInputs : CreateBackgroundVideo(dto)

SpecContent == Init /\ [][NextContent]_vars

\* ------------------------------------------------------- job lifecycle
\* Two accounts, one valid row of content and presets per request, every
\* owner and every foreign key (one past the last row included), every
\* status, and progress values below, at and above the declared range.
JobUserInputs ==
    {[username |-> "alice", email |-> "a@x.io"], [username |-> "bob", email |-> "b@x.io"]}
JobPostInputs ==
    [reddit_id : {"t3_a"}, word_count : {7}, estimated_duration : {0},
     user_id : UserIdInputs]
JobVideoInputs ==
    [duration : {1500}, width : {1080}, height : {1920}, fps : {3000},
     user_id : UserIdInputs]
JobTTSInputs == [speed : {100}, pitch : {100}, volume : {100}, user_id : UserIdInputs]
JobStyleInputs ==
    [font_size : {24}, background_opacity : {80}, position_x : {500},
     position_y : {800}, user_id : UserIdInputs]
VideoGenerationJobCreateInputs ==
    [user_id : UserIdInputs, reddit_post_id : 1..2, background_video_id : 1..(MaxVideos + 1),
     tts_config_id : 1..(MaxPresets + 1), subtitle_style_id : 1..(MaxPresets + 1)]
VideoGenerationJobUpdateInputs ==
    [status : Optional(JobStatus), progress_percentage : Optional({5000, 10000, 10001})]
JobProgressUpdateCreateInputs ==
    [progress_percentage : {-1, 5000, 10000}, video_job_id : 1..(MaxJobs + 1)]

Next ==
    \/ \E dto \in JobUserInputs : CreateUser(dto)
    \/ \E dto \in JobPostInputs : CreateRedditPost(dto)
    \/ \E dto \in JobVideoInputs : CreateBackgroundVideo(dto)
    \/ \E dto \in JobTTSInputs : CreateTTSConfiguration(dto)
    \/ \E dto \in JobStyleInputs : CreateSubtitleStyle(dto)
    \/ \E dto \in VideoGenerationJobCreateInputs : CreateVideoGenerationJob(dto)
    \/ \E id \in 1..MaxJobs, dto \in VideoGenerationJobUpdateInputs :
           UpdateVideoGenerationJob(id, dto)
    \/ \E dto \in JobProgressUpdateCreateInputs : CreateJobProgressUpdate(dto)

Spec == Init /\ [][Next]_vars

\* --------------------------------------------------- numeric bounds
\* One account and one valid row of content; every bounded numeric field of
\* the presets, the job and the progress log is requested outside its range
\* and on an inclusive end of it (speed, font_size and progress_percentage
\* on both sides).
BoundsUserInputs == {[username |-> "alice", email |-> "a@x.io"]}
BoundsPostInputs ==
    [reddit_id : {"t3_a"}, word_count : {7}, estimated_duration : {0}, user_id : {1}]
BoundsVideoInputs ==
    [duration : {1500}, width : {1080}, height : {1920}, fps : {3000}, user_id : {1}]
SpeedInputs == {9, 10, 300, 301}
PitchInputs == {200, 201}
VolumeInputs == {9, 10}
FontSizeInputs == {9, 10, 72, 73}
OpacityInputs == {100, 101}
PositionXInputs == {-1, 0}
PositionYInputs == {1000, 1001}
ProgressInputs == {-1, 0, 10000, 10001}

TTSConfigurationCreateInputs ==
    [speed : SpeedInputs, pitch : PitchInputs, volume : VolumeInputs, user_id : {1}]
TTSConfigurationUpdateInputs ==
    [speed : Optional(SpeedInputs), pitch : Optional(PitchInputs),
     volume : Optional(VolumeInputs)]
SubtitleStyleCreateInputs ==
    [font_size : FontSizeInputs, background_opacity : OpacityInputs,
     position_x : PositionXInputs, position_y : PositionYInputs, user_id : {1}]
SubtitleStyleUpdateInputs ==
    [font_size : Optional(FontSizeInputs), background_opacity : Optional(OpacityInputs),
     position_x : Optional(PositionXInputs), position_y : Optional(PositionYInputs)]
BoundsJobCreateInputs ==
    [user_id : {1}, reddit_post_id : {1}, background_video_id : {1},
     tts_config_id : {1}, subtitle_style_id : {1}]
BoundsJobUpdateInputs == [status : {None}, progress_percentage : Optional(ProgressInputs)]
BoundsProgressInputs == [progress_percentage : ProgressInputs, video_job_id : {1}]

NextBounds ==
    \/ \E dto \in BoundsUserInputs : CreateUser(dto)
    \/ \E dto \in BoundsPostInputs : CreateRedditPost(dto)
    \/ \E dto \in BoundsVideoInputs : CreateBackgroundVideo(dto)
    \/ \E dto \in TTSConfigurationCreateInputs : CreateTTSConfiguration(dto)
    \/ \E id \in 1..MaxPresets, dto \in TTSConfigurationUpdateInputs :
           UpdateTTSConfiguration(id, dto)
    \/ \E dto \in SubtitleStyleCreateInputs : CreateSubtitleStyle(dto)
    \/ \E id \in 1..MaxPresets, dto \in SubtitleStyleUpdateInputs :
           UpdateSubtitleStyle(id, dto)
    \/ \E dto \in BoundsJobCreateInputs : CreateVideoGenerationJob(dto)
    \/ \E id \in 1..MaxJobs, dto \in BoundsJobUpdateInputs :
           UpdateVideoGenerationJob(id, dto)
    \/ \E dto \in BoundsProgressInputs : CreateJobProgressUpdate(dto)

SpecBounds == Init /\ [][NextBounds]_vars

\* ================================================================ claims
jobs == video_generation_jobs

Terminal == {COMPLETED, FAILED, CANCELLED}

\* C1: a job's status changes only along pending->processing,
\* processing->completed, processing->failed, processing->cancelled or
\* failed->pending; in particular nothing leaves completed or cancelled.
LegalTransitions ==
    {<<PENDING, PROCESSING>>, <<PROCESSING, COMPLETED>>, <<PROCESSING, FAILED>>,
     <<PROCESSING, CANCELLED>>, <<FAILED, PENDING>>}

C1_OnlyLegalTransitions ==
    [][\A j \in Ids(jobs) :
          jobs'[j].status # jobs[j].status
              => <<jobs[j].status, jobs'[j].status>> \in LegalTransitions]_vars

\* C2: every job has 0 <= retry_count <= max_retries, and a failed job
\* re-enters pending only with retry_count < max_retries beforehand and
\* retry_count one higher afterwards.
C2_RetryBookkeeping ==
    [][\A j \in Ids(jobs) :
          /\ 0 <= jobs'[j].retry_count
          /\ jobs'[j].retry_count <= jobs'[j].max_retries
          /\ (jobs[j].status = FAILED /\ jobs'[j].status = PENDING)
                 => /\ jobs[j].retry_count < jobs[j].max_retries
                    /\ jobs'[j].retry_count = jobs[j].retry_count + 1]_vars

\* C3: a completed job has progress_percentage = 100 and a non-null
\* completed_at.
C3_CompletedIsFull ==
    \A j \in Ids(jobs) :
        jobs[j].status = COMPLETED
            => jobs[j].progress_percentage = 10000 /\ jobs[j].completed_at # None

\* C4: while a job stays in processing its progress_percentage never
\* decreases, and it always lies in [0, 100].
C4_ProgressMonotone ==
    [][\A j \in Ids(jobs) :
          /\ 0 <= jobs'[j].progress_percentage
          /\ jobs'[j].progress_percentage <= 10000
          /\ (jobs[j].status = PROCESSING /\ jobs'[j].status = PROCESSING)
                 => jobs'[j].progress_percentage >= jobs[j].progress_percentage]_vars

\* The part of C4 the declared range gives: progress stays in [0, 100].
ProgressInRange ==
    \A j \in Ids(jobs) :
        0 <= jobs[j].progress_percentage /\ jobs[j].progress_percentage <= 10000

\* C5: started_at is set by the pending->processing transition and
\* completed_at by the transition into completed, failed or cancelled; no
\* other step changes either timestamp.
C5_TimestampsFollowStatus ==
    [][\A j \in Ids(jobs) :
          /\ IF jobs[j].status = PENDING /\ jobs'[j].status = PROCESSING
             THEN jobs'[j].started_at # None
             ELSE jobs'[j].started_at = jobs[j].started_at
          /\ IF jobs[j].status \notin Terminal /\ jobs'[j].status \in Terminal
             THEN jobs'[j].completed_at # None
             ELSE jobs'[j].completed_at = jobs[j].completed_at]_vars

\* The part of C5 the schemas give: no operation writes either timestamp.
TimestampsNeverWritten ==
    \A j \in Ids(jobs) : jobs[j].started_at = None /\ jobs[j].completed_at = None

\* C6: no two users share a username or an email, no two posts share a
\* reddit_id, and a write refused with ConflictError leaves every table as
\* it was.
UniqueKeys ==
    /\ \A i, k \in Ids(users) :
           i # k => users[i].username # users[k].username
                    /\ users[i].email # users[k].email
    /\ \A i, k \in Ids(reddit_posts) :
           i # k => reddit_posts[i].reddit_id # reddit_posts[k].reddit_id

C6_UniqueKeys ==
    [][UniqueKeys' /\ (result' = ConflictError => UNCHANGED tables)]_vars

\* A duplicate was refused while two users and two posts are stored.
C6_Witness ==
    result = ConflictError /\ Len(users) = 2 /\ Len(reddit_posts) = 2

\* C7: every stored row has speed in [0.1, 3.0], pitch and volume in
\* [0.1, 2.0], background_opacity, position_x, position_y in [0, 1],
\* font_size in [10, 72] and progress_percentage in [0, 100]; a write
\* refused with ValidationError stores nothing.
StoredWithinBounds ==
    /\ \A i \in Ids(tts_configurations) :
           LET r == tts_configurations[i]
           IN /\ 10 <= r.speed /\ r.speed <= 300
              /\ 10 <= r.pitch /\ r.pitch <= 200
              /\ 10 <= r.volume /\ r.volume <= 200
    /\ \A i \in Ids(subtitle_styles) :
           LET r == subtitle_styles[i]
           IN /\ 10 <= r.font_size /\ r.font_size <= 72
              /\ 0 <= r.background_opacity /\ r.background_opacity <= 100
              /\ 0 <= r.position_x /\ r.position_x <= 1000
              /\ 0 <= r.position_y /\ r.position_y <= 1000
    /\ \A j \in Ids(jobs) :
           0 <= jobs[j].progress_percentage /\ jobs[j].progress_percentage <= 10000
    /\ \A i \in Ids(job_progress_updates) :
           /\ 0 <= job_progress_updates[i].progress_percentage
           /\ job_progress_updates[i].progress_percentage <= 10000

LogNonDecreasing(log) ==
    \A i, k \in Ids(log) :
        (i < k /\ log[i].video_job_id = log[k].video_job_id)
            => log[i].progress_percentage <= log[k].progress_percentage

LogAppendOnly ==
    /\ Len(job_progress_updates') >= Len(job_progress_updates)
    /\ \A i \in Ids(job_progress_updates) :
           job_progress_updates'[i] = job_progress_updates[i]

C8_LogMonotone == [][LogAppendOnly /\ LogNonDecreasing(job_progress_updates')]_vars

\* The part of C8 the schemas give: stored entries are never changed or removed.
C8_AppendOnlyPart == [][LogAppendOnly]_vars

\* C9: every foreign key names an existing row, and the post, video, TTS
\* configuration and subtitle style of a job belong to the job's user.
ForeignKeysExist ==
    /\ \A i \in Ids(reddit_posts) : reddit_posts[i].user_id \in Ids(users)
    /\ \A i \in Ids(background_videos) : background_videos[i].user_id \in Ids(users)
    /\ \A i \in Ids(tts_configurations) : tts_configurations[i].user_id \in Ids(users)
    /\ \A i \in Ids(subtitle_styles) : subtitle_styles[i].user_id \in Ids(users)
    /\ \A j \in Ids(jobs) : JobForeignKeysExist(jobs[j])
    /\ \A i \in Ids(job_progress_updates) :
           job_progress_updates[i].video_job_id \in Ids(jobs)

SameOwner(j) ==
    /\ reddit_posts[jobs[j].reddit_post_id].user_id = jobs[j].user_id
    /\ background_videos[jobs[j].background_video_id].user_id = jobs[j].user_id
    /\ tts_configurations[jobs[j].tts_config_id].user_id = jobs[j].user_id
    /\ subtitle_styles[jobs[j].subtitle_style_id].user_id = jobs[j].user_id

C9_ReferentialIntegrity ==
    /\ ForeignKeysExist
    /\ \A j \in Ids(jobs) : SameOwner(j)

\* C10: every stored background video has duration, width, height and fps
\* above zero, and every stored post has word_count and estimated_duration
\* of at least zero.
C10_PositiveDimensions ==
    /\ \A i \in Ids(background_videos) :
           LET v == background_videos[i]
           IN v.duration > 0 /\ v.width > 0 /\ v.height > 0 /\ v.fps > 0
    /\ \A i \in Ids(reddit_posts) :
           reddit_posts[i].word_count >= 0 /\ reddit_posts[i].estimated_duration >= 0

====
